---- MODULE Spec2Model ----
(***************************************************************************)
(* A model of num-rational's Ratio<T> (src/src/lib.rs) over a fixed-width  *)
(* integer type T.  T is a two's-complement signed or an unsigned integer  *)
(* of Bits bits; an arithmetic overflow panics when the crate is built     *)
(* with overflow checks (debug) and wraps when it is built without them    *)
(* (release).  A division by zero and the division MIN / -1 panic in every *)
(* build.                                                                  *)
(***************************************************************************)
EXTENDS Integers, Sequences, FiniteSets, TLC

\* Width of the integer type T, in bits.
Bits == 3

VARIABLES
    signed,   \* TRUE: T is a signed two's-complement type; FALSE: unsigned
    checks,   \* TRUE: built with overflow checks (overflow panics); FALSE: wraps
    by,       \* the constructor that built x and y: "new" or "new_raw"
    x,        \* a Ratio<T>: [numer, denom]
    y,        \* a Ratio<T>: [numer, denom]
    op,       \* the last operation applied
    res,      \* what it returned (or the panic)
    text,     \* a string: the input of from_str, the output of to_string
    call      \* the arguments and locals of a running float approximation

vars == <<signed, checks, by, x, y, op, res, text, call>>

----------------------------------------------------------------------------
(* The integer type T and its primitive operations.                         *)

TMin == IF signed THEN -(2^(Bits - 1)) ELSE 0
TMax == IF signed THEN 2^(Bits - 1) - 1 ELSE 2^Bits - 1
T == TMin..TMax

InRange(v) == v >= TMin /\ v <= TMax

\* The value of T congruent to v modulo 2^Bits.
Wrap(v) == ((v - TMin) % (2^Bits)) + TMin

Abs(v) == IF v < 0 THEN -v ELSE v

\* An integer result: a value of T, or a panic.
IntOk(v) == [fault |-> FALSE, val |-> v]
IntPanic == [fault |-> TRUE, val |-> 0]

\* The outcome of +, - and * on T whose exact result is v.
Overflowing(v) ==
    IF InRange(v) THEN IntOk(v)
    ELSE IF checks THEN IntPanic
    ELSE IntOk(Wrap(v))

T_add(p, q) == Overflowing(p + q)
T_sub(p, q) == Overflowing(p - q)
T_mul(p, q) == Overflowing(p * q)

\* Quotient and remainder of Rust's / and %: rounded toward zero.
TruncDiv(p, q) ==
    IF (p < 0) = (q < 0) THEN Abs(p) \div Abs(q) ELSE -(Abs(p) \div Abs(q))
TruncRem(p, q) == p - q * TruncDiv(p, q)

T_div(p, q) ==
    IF q = 0 THEN IntPanic
    ELSE IF signed /\ p = TMin /\ q = -1 THEN IntPanic
    ELSE IntOk(TruncDiv(p, q))

T_rem(p, q) ==
    IF q = 0 THEN IntPanic
    ELSE IF signed /\ p = TMin /\ q = -1 THEN IntPanic
    ELSE IntOk(TruncRem(p, q))

\* Checked primitives: None instead of an overflow.
OptSome(v) == [some |-> TRUE, val |-> v]
OptNone == [some |-> FALSE, val |-> 0]
T_checked_add(p, q) == IF InRange(p + q) THEN OptSome(p + q) ELSE OptNone
T_checked_sub(p, q) == IF InRange(p - q) THEN OptSome(p - q) ELSE OptNone
T_checked_mul(p, q) == IF InRange(p * q) THEN OptSome(p * q) ELSE OptNone

RECURSIVE GcdNat(_, _)
GcdNat(p, q) == IF q = 0 THEN p ELSE GcdNat(q, p % q)

\* Integer::gcd: the non-negative greatest common divisor; for a signed T
\* the gcd 2^(Bits-1) of MIN with MIN or 0 is not a value of T and its
\* abs() overflows.
gcd(p, q) == Overflowing(GcdNat(Abs(p), Abs(q)))

\* Integer::div_mod_floor: quotient rounded toward minus infinity, and the
\* remainder with the sign of the divisor.
DivModOk(d, r) == [fault |-> FALSE, quot |-> d, rem |-> r]
DivModPanic == [fault |-> TRUE, quot |-> 0, rem |-> 0]

div_mod_floor(p, q) ==
    LET d == T_div(p, q)
        r == T_rem(p, q)
    IN  IF d.fault \/ r.fault THEN DivModPanic
        ELSE IF (r.val > 0 /\ q < 0) \/ (r.val < 0 /\ q > 0)
        THEN LET d1 == T_sub(d.val, 1)
                 r1 == T_add(r.val, q)
             IN  IF d1.fault \/ r1.fault THEN DivModPanic
                 ELSE DivModOk(d1.val, r1.val)
        ELSE DivModOk(d.val, r.val)

----------------------------------------------------------------------------
(* Ratio<T>: construction and normalisation.                                *)

Ratio(n, d) == [numer |-> n, denom |-> d]

\* The outcome of an operation on `self`: self's fields as the operation
\* leaves them, and whether it panicked.
Done(n, d) == [fault |-> FALSE, numer |-> n, denom |-> d]
Panicked(n, d) == [fault |-> TRUE, numer |-> n, denom |-> d]
\* A panic of an operation that returns a new value: there is no value.
Panic == Panicked(0, 0)

new_raw(numer, denom) == Done(numer, denom)

\* reduce without its "keep denom positive" step.
reduce_keep_sign(numer, denom) ==
    LET g == gcd(numer, denom) IN
    IF g.fault THEN Panicked(numer, denom)
    ELSE
    LET n1 == T_div(numer, g.val) IN
    IF n1.fault THEN Panicked(numer, denom)
    ELSE
    LET d1 == T_div(denom, g.val) IN
    IF d1.fault THEN Panicked(n1.val, denom)
    ELSE Done(n1.val, d1.val)

\* reduce(&mut self), self = numer/denom.
reduce(numer, denom) ==
    LET g == gcd(numer, denom) IN
    IF g.fault THEN Panicked(numer, denom)
    ELSE
    LET n1 == T_div(numer, g.val) IN
    IF n1.fault THEN Panicked(numer, denom)
    ELSE
    LET d1 == T_div(denom, g.val) IN
    IF d1.fault THEN Panicked(n1.val, denom)
    ELSE IF d1.val < 0
    THEN LET n2 == T_sub(0, n1.val) IN
         IF n2.fault THEN Panicked(n1.val, d1.val)
         ELSE LET d2 == T_sub(0, d1.val) IN
              IF d2.fault THEN Panicked(n2.val, d1.val)
              ELSE Done(n2.val, d2.val)
    ELSE Done(n1.val, d1.val)

new(numer, denom) ==
    IF denom = 0 THEN Panic
    ELSE LET ret == reduce(numer, denom)
         IN  IF ret.fault THEN Panic ELSE ret

from_integer(t) == new_raw(t, 1)

zero == Ratio(0, 1)
one == Ratio(1, 1)

\* The Ratio a non-panicking operation returned.
Value(r) == Ratio(r.numer, r.denom)

----------------------------------------------------------------------------
(* Ordering, equality and hashing.                                          *)

reverse(o) ==
    IF o = "Less" THEN "Greater" ELSE IF o = "Greater" THEN "Less" ELSE o

\* T's own Ord::cmp.
T_cmp(p, q) == IF p < q THEN "Less" ELSE IF p > q THEN "Greater" ELSE "Equal"

\* cmp with the equal-numerator branch reversing for a negative numerator
\* instead of for a non-negative one.
RECURSIVE cmp_reverse_negative(_, _)
cmp_reverse_negative(self, other) ==
    IF self.denom = other.denom
    THEN LET ord == T_cmp(self.numer, other.numer)
         IN  IF self.denom < 0 THEN reverse(ord) ELSE ord
    ELSE IF self.numer = other.numer
    THEN LET ord == T_cmp(self.denom, other.denom)
         IN  IF self.numer < 0 THEN reverse(ord) ELSE ord
    ELSE
    LET s == div_mod_floor(self.numer, self.denom) IN
    IF s.fault THEN "Panic"
    ELSE
    LET o == div_mod_floor(other.numer, other.denom) IN
    IF o.fault THEN "Panic"
    ELSE IF s.quot > o.quot THEN "Greater"
    ELSE IF s.quot < o.quot THEN "Less"
    ELSE IF s.rem = 0 /\ o.rem = 0 THEN "Equal"
    ELSE IF s.rem = 0 THEN "Less"
    ELSE IF o.rem = 0 THEN "Greater"
    ELSE reverse(cmp_reverse_negative(Ratio(self.denom, s.rem),
                                      Ratio(other.denom, o.rem)))

\* Ord::cmp(&self, &other): "Less", "Equal", "Greater", or "Panic".
RECURSIVE cmp(_, _)
cmp(self, other) ==
    IF self.denom = other.denom
    THEN LET ord == T_cmp(self.numer, other.numer)
         IN  IF self.denom < 0 THEN reverse(ord) ELSE ord
    ELSE IF self.numer = other.numer
    THEN LET ord == T_cmp(self.denom, other.denom)
         IN  IF self.numer < 0 THEN ord ELSE reverse(ord)
    ELSE
    LET s == div_mod_floor(self.numer, self.denom) IN
    IF s.fault THEN "Panic"
    ELSE
    LET o == div_mod_floor(other.numer, other.denom) IN
    IF o.fault THEN "Panic"
    ELSE IF s.quot > o.quot THEN "Greater"
    ELSE IF s.quot < o.quot THEN "Less"
    ELSE IF s.rem = 0 /\ o.rem = 0 THEN "Equal"
    ELSE IF s.rem = 0 THEN "Less"
    ELSE IF o.rem = 0 THEN "Greater"
    ELSE reverse(cmp(Ratio(self.denom, s.rem), Ratio(other.denom, o.rem)))

\* cmp_call recursing on (remainder, denominator) instead of on
\* (denominator, remainder).
cmp_call_swapped(self, other) ==
    IF self.denom = other.denom
    THEN LET ord == T_cmp(self.numer, other.numer)
         IN  [recurse |-> FALSE, self |-> self, other |-> other,
              ord |-> IF self.denom < 0 THEN reverse(ord) ELSE ord]
    ELSE IF self.numer = other.numer
    THEN LET ord == T_cmp(self.denom, other.denom)
         IN  [recurse |-> FALSE, self |-> self, other |-> other,
              ord |-> IF self.numer < 0 THEN ord ELSE reverse(ord)]
    ELSE
    LET s == div_mod_floor(self.numer, self.denom)
        o == div_mod_floor(other.numer, other.denom)
        return(ord) == [recurse |-> FALSE, self |-> self, other |-> other,
                        ord |-> ord]
    IN
    IF s.fault \/ o.fault THEN return("Panic")
    ELSE IF s.quot > o.quot THEN return("Greater")
    ELSE IF s.quot < o.quot THEN return("Less")
    ELSE IF s.rem = 0 /\ o.rem = 0 THEN return("Equal")
    ELSE IF s.rem = 0 THEN return("Less")
    ELSE IF o.rem = 0 THEN return("Greater")
    ELSE [recurse |-> TRUE, self |-> Ratio(s.rem, self.denom),
          other |-> Ratio(o.rem, other.denom), ord |-> "none"]

\* One call of Ord::cmp(&self, &other), the recursive call not followed: the
\* ordering it returns without calling itself ("Panic" for a panic), or the
\* operands self_recip and other_recip of its recursive call, whose result
\* the caller reverses.
cmp_call(self, other) ==
    IF self.denom = other.denom
    THEN LET ord == T_cmp(self.numer, other.numer)
         IN  [recurse |-> FALSE, self |-> self, other |-> other,
              ord |-> IF self.denom < 0 THEN reverse(ord) ELSE ord]
    ELSE IF self.numer = other.numer
    THEN LET ord == T_cmp(self.denom, other.denom)
         IN  [recurse |-> FALSE, self |-> self, other |-> other,
              ord |-> IF self.numer < 0 THEN ord ELSE reverse(ord)]
    ELSE
    LET s == div_mod_floor(self.numer, self.denom)
        o == div_mod_floor(other.numer, other.denom)
        return(ord) == [recurse |-> FALSE, self |-> self, other |-> other,
                        ord |-> ord]
    IN
    IF s.fault \/ o.fault THEN return("Panic")
    ELSE IF s.quot > o.quot THEN return("Greater")
    ELSE IF s.quot < o.quot THEN return("Less")
    ELSE IF s.rem = 0 /\ o.rem = 0 THEN return("Equal")
    ELSE IF s.rem = 0 THEN return("Less")
    ELSE IF o.rem = 0 THEN return("Greater")
    ELSE [recurse |-> TRUE, self |-> Ratio(self.denom, s.rem),
          other |-> Ratio(other.denom, o.rem), ord |-> "none"]

\* PartialEq::eq: "true", "false", or "Panic".
eq(self, other) ==
    LET c == cmp(self, other)
    IN  IF c = "Panic" THEN "Panic" ELSE IF c = "Equal" THEN "true" ELSE "false"

\* What Hash::hash feeds to the hasher: the sequence of hashed integers, or
\* a panic.
HashOk(seq) == [fault |-> FALSE, seq |-> seq]
HashPanic == [fault |-> TRUE, seq |-> <<>>]

\* recurse ending on the last divisor of the descent instead of on the zero
\* remainder.
RECURSIVE recurse_final_divisor(_, _)
recurse_final_divisor(numer, denom) ==
    IF denom # 0
    THEN LET dm == div_mod_floor(numer, denom) IN
         IF dm.fault THEN HashPanic
         ELSE LET rest == recurse_final_divisor(denom, dm.rem)
              IN  IF rest.fault THEN HashPanic
                  ELSE HashOk(<<dm.quot>> \o rest.seq)
    ELSE HashOk(<<numer>>)

\* recurse hashing nothing once the denominator is zero.
RECURSIVE recurse_no_terminator(_, _)
recurse_no_terminator(numer, denom) ==
    IF denom # 0
    THEN LET dm == div_mod_floor(numer, denom) IN
         IF dm.fault THEN HashPanic
         ELSE LET rest == recurse_no_terminator(denom, dm.rem)
              IN  IF rest.fault THEN HashPanic
                  ELSE HashOk(<<dm.quot>> \o rest.seq)
    ELSE HashOk(<<>>)

RECURSIVE recurse(_, _)
recurse(numer, denom) ==
    IF denom # 0
    THEN LET dm == div_mod_floor(numer, denom) IN
         IF dm.fault THEN HashPanic
         ELSE LET rest == recurse(denom, dm.rem)
              IN  IF rest.fault THEN HashPanic
                  ELSE HashOk(<<dm.quot>> \o rest.seq)
    ELSE HashOk(<<denom>>)

hash(self) == recurse(self.numer, self.denom)

----------------------------------------------------------------------------
(* Rounding toward zero and the fractional part.                            *)

\* Ratio::new on two integer results: a panic in either is a panic.
NewOf(n, d) == IF n.fault \/ d.fault THEN Panic ELSE new(n.val, d.val)

trunc(self) ==
    LET q == T_div(self.numer, self.denom)
    IN  IF q.fault THEN Panic ELSE from_integer(q.val)

fract(self) ==
    LET r == T_rem(self.numer, self.denom)
    IN  IF r.fault THEN Panic ELSE new_raw(r.val, self.denom)

----------------------------------------------------------------------------
(* Arithmetic.                                                              *)

\* The method $method of T that arith_impl! is instantiated with.
T_method(method, p, q) ==
    CASE method = "add" -> T_add(p, q)
      [] method = "sub" -> T_sub(p, q)
      [] method = "rem" -> T_rem(p, q)

\* arith_impl!: a/b `method` c/d = (a*d `method` b*c) / (b*d)
arith_impl(method, self, rhs) ==
    LET ad == T_mul(self.numer, rhs.denom)
        bc == T_mul(self.denom, rhs.numer)
    IN  NewOf(IF ad.fault \/ bc.fault THEN IntPanic
              ELSE T_method(method, ad.val, bc.val),
              T_mul(self.denom, rhs.denom))

add(self, rhs) == arith_impl("add", self, rhs)
sub(self, rhs) == arith_impl("sub", self, rhs)
rem(self, rhs) == arith_impl("rem", self, rhs)

\* Mul<Ratio<T>>: a/b * c/d = (a*c)/(b*d)
mul(self, rhs) ==
    NewOf(T_mul(self.numer, rhs.numer), T_mul(self.denom, rhs.denom))

\* Div<Ratio<T>>: (a/b) / (c/d) = (a*d)/(b*c)
div(self, rhs) ==
    NewOf(T_mul(self.numer, rhs.denom), T_mul(self.denom, rhs.numer))

\* Div<T>: (a/b) / (c/1) = a/(b*c)
div_T(self, rhs) == NewOf(IntOk(self.numer), T_mul(self.denom, rhs))

\* DivAssign<Ratio<T>>: the fields of self as div_assign leaves them.
div_assign(self, other) ==
    LET n == T_mul(self.numer, other.denom) IN
    IF n.fault THEN Panicked(self.numer, self.denom)
    ELSE LET d == T_mul(self.denom, other.numer) IN
         IF d.fault THEN Panicked(n.val, self.denom)
         ELSE reduce(n.val, d.val)

\* DivAssign<T>
div_assign_T(self, other) ==
    LET d == T_mul(self.denom, other) IN
    IF d.fault THEN Panicked(self.numer, self.denom)
    ELSE reduce(self.numer, d.val)

\* add_assign, sub_assign or rem_assign multiplying the denominators before
\* it forms denom * other.numer.
arith_assign_denom_first(method, self, other) ==
    LET n1 == T_mul(self.numer, other.denom) IN
    IF n1.fault THEN Panicked(self.numer, self.denom)
    ELSE LET d == T_mul(self.denom, other.denom) IN
    IF d.fault THEN Panicked(n1.val, self.denom)
    ELSE LET bc == T_mul(d.val, other.numer) IN
    IF bc.fault THEN Panicked(n1.val, d.val)
    ELSE LET n2 == T_method(method, n1.val, bc.val) IN
    IF n2.fault THEN Panicked(n1.val, d.val)
    ELSE reduce(n2.val, d.val)

\* AddAssign, SubAssign and RemAssign for Ratio<T> (add_assign, sub_assign,
\* rem_assign: `method` is add, sub or rem): the fields of self as the
\* operator leaves them.
\*   self.numer *= other.denom; self.numer `method`= self.denom * other.numer;
\*   self.denom *= other.denom; self.reduce();
arith_assign(method, self, other) ==
    LET n1 == T_mul(self.numer, other.denom) IN
    IF n1.fault THEN Panicked(self.numer, self.denom)
    ELSE LET bc == T_mul(self.denom, other.numer) IN
    IF bc.fault THEN Panicked(n1.val, self.denom)
    ELSE LET n2 == T_method(method, n1.val, bc.val) IN
    IF n2.fault THEN Panicked(n1.val, self.denom)
    ELSE LET d == T_mul(self.denom, other.denom) IN
    IF d.fault THEN Panicked(n2.val, self.denom)
    ELSE reduce(n2.val, d.val)

\* MulAssign<Ratio<T>>
mul_assign(self, other) ==
    LET n == T_mul(self.numer, other.numer) IN
    IF n.fault THEN Panicked(self.numer, self.denom)
    ELSE LET d == T_mul(self.denom, other.denom) IN
         IF d.fault THEN Panicked(n.val, self.denom)
         ELSE reduce(n.val, d.val)

\* arith_impl!, $imp<T> (Add<T>, Sub<T>, Rem<T>):
\* a/b `method` c/1 = (a `method` b*c) / b
arith_impl_T(method, self, rhs) ==
    LET bc == T_mul(self.denom, rhs)
    IN  NewOf(IF bc.fault THEN IntPanic
              ELSE T_method(method, self.numer, bc.val),
              IntOk(self.denom))

\* Mul<T> multiplying the denominator instead of the numerator.
mul_T_denom(self, rhs) == NewOf(IntOk(self.numer), T_mul(self.denom, rhs))

\* Mul<T>: a/b * c/1 = (a*c) / b
mul_T(self, rhs) == NewOf(T_mul(self.numer, rhs), IntOk(self.denom))

\* AddAssign<T>, SubAssign<T> and RemAssign<T>:
\*   self.numer `method`= self.denom * other; self.reduce();
arith_assign_T(method, self, other) ==
    LET bc == T_mul(self.denom, other) IN
    IF bc.fault THEN Panicked(self.numer, self.denom)
    ELSE LET n == T_method(method, self.numer, bc.val) IN
         IF n.fault THEN Panicked(self.numer, self.denom)
         ELSE reduce(n.val, self.denom)

\* MulAssign<T>
mul_assign_T(self, other) ==
    LET n == T_mul(self.numer, other) IN
    IF n.fault THEN Panicked(self.numer, self.denom)
    ELSE reduce(n.val, self.denom)

\* impl_primitive_ops_ratio!: a primitive integer on the left of the operator;
\* T::from(self) keeps its value.
\* Add<Ratio<T>> for $primitive
primitive_add(self, rhs) == NewOf(T_add(rhs.numer, self), IntOk(rhs.denom))

\* Sub<Ratio<T>> for $primitive
primitive_sub(self, rhs) == NewOf(T_sub(self, rhs.numer), IntOk(rhs.denom))

\* Mul<Ratio<T>> for $primitive
primitive_mul(self, rhs) == NewOf(T_mul(rhs.numer, self), IntOk(rhs.denom))

\* Div<Ratio<T>> for $primitive
primitive_div(self, rhs) == NewOf(IntOk(rhs.numer), T_mul(rhs.denom, self))

\* The result of a checked operator: Some(ratio), None, or a panic.
Some(r) == [kind |-> IF r.fault THEN "Panic" ELSE "Some",
            numer |-> r.numer, denom |-> r.denom]
None == [kind |-> "None", numer |-> 0, denom |-> 0]

checked_mul(self, rhs) ==
    LET n == T_checked_mul(self.numer, rhs.numer) IN
    IF ~n.some THEN None
    ELSE LET d == T_checked_mul(self.denom, rhs.denom) IN
         IF ~d.some THEN None
         ELSE Some(new(n.val, d.val))

checked_div(self, rhs) ==
    LET bc == T_checked_mul(self.denom, rhs.numer) IN
    IF ~bc.some THEN None
    ELSE IF bc.val = 0 THEN None
    ELSE LET ad == T_checked_mul(self.numer, rhs.denom) IN
         IF ~ad.some THEN None
         ELSE Some(new(ad.val, bc.val))

\* The checked method $method of T that checked_arith_impl! is instantiated
\* with.
T_checked_method(method, p, q) ==
    CASE method = "checked_add" -> T_checked_add(p, q)
      [] method = "checked_sub" -> T_checked_sub(p, q)

\* checked_arith_impl!
checked_arith_impl(method, self, rhs) ==
    LET ad == T_checked_mul(self.numer, rhs.denom) IN
    IF ~ad.some THEN None
    ELSE LET bc == T_checked_mul(self.denom, rhs.numer) IN
    IF ~bc.some THEN None
    ELSE LET bd == T_checked_mul(self.denom, rhs.denom) IN
    IF ~bd.some THEN None
    ELSE LET n == T_checked_method(method, ad.val, bc.val) IN
    IF ~n.some THEN None
    ELSE Some(new(n.val, bd.val))

checked_add(self, rhs) == checked_arith_impl("checked_add", self, rhs)
checked_sub(self, rhs) == checked_arith_impl("checked_sub", self, rhs)

----------------------------------------------------------------------------
(* Rounding to an integer, and the reciprocal.                              *)

\* PartialOrd's < and >= (partial_cmp is Some(cmp)): "true", "false" or
\* "Panic".
lt(self, other) ==
    LET c == cmp(self, other)
    IN  IF c = "Panic" THEN "Panic" ELSE IF c = "Less" THEN "true" ELSE "false"

ge(self, other) ==
    LET c == cmp(self, other)
    IN  IF c = "Panic" THEN "Panic" ELSE IF c = "Less" THEN "false" ELSE "true"

\* Integer::is_even
is_even(t) == t % 2 = 0

\* Ratio::from_integer on an integer result.
FromIntegerOf(t) == IF t.fault THEN Panic ELSE from_integer(t.val)

\* recip without the sign fold of its Less arm.
recip_swap(self) ==
    IF self.numer = 0 THEN Panic
    ELSE new_raw(self.denom, self.numer)

recip(self) ==
    LET c == T_cmp(self.numer, 0) IN
    IF c = "Equal" THEN Panic
    ELSE IF c = "Greater" THEN new_raw(self.denom, self.numer)
    ELSE LET d == T_sub(0, self.denom) IN
         IF d.fault THEN Panic
         ELSE LET n == T_sub(0, self.numer) IN
              IF n.fault THEN Panic
              ELSE new_raw(d.val, n.val)

floor(self) ==
    LET neg == lt(self, zero) IN
    IF neg = "Panic" THEN Panic
    ELSE IF neg = "true"
    THEN LET nd == T_sub(self.numer, self.denom) IN
         IF nd.fault THEN Panic
         ELSE LET nd1 == T_add(nd.val, 1) IN
              IF nd1.fault THEN Panic
              ELSE FromIntegerOf(T_div(nd1.val, self.denom))
    ELSE FromIntegerOf(T_div(self.numer, self.denom))

ceil(self) ==
    LET neg == lt(self, zero) IN
    IF neg = "Panic" THEN Panic
    ELSE IF neg = "true"
    THEN FromIntegerOf(T_div(self.numer, self.denom))
    ELSE LET nd == T_add(self.numer, self.denom) IN
         IF nd.fault THEN Panic
         ELSE LET nd1 == T_sub(nd.val, 1) IN
              IF nd1.fault THEN Panic
              ELSE FromIntegerOf(T_div(nd1.val, self.denom))

\* The unsigned fractional part that round compares with 1/2.
fractional(self) ==
    LET f == fract(self) IN
    IF f.fault THEN Panic
    ELSE LET neg == lt(Value(f), zero) IN
         IF neg = "Panic" THEN Panic
         ELSE IF neg = "true" THEN sub(zero, Value(f))
         ELSE f

\* Whether round adds or subtracts one, given its half_or_larger.
round_away(self, half_or_larger) ==
    IF half_or_larger
    THEN LET pos == ge(self, zero)
             t == trunc(self)
         IN  IF pos = "Panic" \/ t.fault THEN Panic
             ELSE IF pos = "true" THEN add(Value(t), one)
             ELSE sub(Value(t), one)
    ELSE trunc(self)

\* round comparing with b/2 for odd denominators too.
round_no_odd_correction(self) ==
    LET two == T_add(1, 1)
        f == fractional(self)
    IN  IF two.fault \/ f.fault THEN Panic
        ELSE LET half == T_div(f.denom, two.val) IN
             IF half.fault THEN Panic
             ELSE round_away(self, f.numer >= half.val)

round(self) ==
    LET two == T_add(1, 1)
        f == fractional(self)
    IN  IF two.fault \/ f.fault THEN Panic
        ELSE LET half == T_div(f.denom, two.val) IN
             IF half.fault THEN Panic
             ELSE IF is_even(f.denom)
             THEN round_away(self, f.numer >= half.val)
             ELSE LET half1 == T_add(half.val, 1) IN
                  IF half1.fault THEN Panic
                  ELSE round_away(self, f.numer >= half1.val)

\* T's unary minus (signed T only).
T_neg(v) == Overflowing(-v)

\* Pow::pow for T: repeated multiplication, overflowing as * does.
RECURSIVE T_pow(_, _)
T_pow(base, exp) ==
    IF exp = 0 THEN IntOk(1)
    ELSE LET r == T_pow(base, exp - 1) IN
         IF r.fault THEN IntPanic ELSE T_mul(r.val, base)

\* Ratio::new_raw on two integer results: a panic in either is a panic.
NewRawOf(n, d) == IF n.fault \/ d.fault THEN Panic ELSE new_raw(n.val, d.val)

\* pow_impl!: Pow<$exp> for Ratio<T>
pow(self, expon) ==
    IF expon = 0 THEN new_raw(1, 1)
    ELSE IF expon < 0
    THEN NewRawOf(T_pow(self.denom, -expon), T_pow(self.numer, -expon))
    ELSE NewRawOf(T_pow(self.numer, expon), T_pow(self.denom, expon))

\* From<(T, T)> for Ratio<T>
from_pair(pair) == new(pair[1], pair[2])

\* Neg for Ratio<T>
neg(self) == NewRawOf(T_neg(self.numer), IntOk(self.denom))

\* Signed for Ratio<T>
is_positive(self) ==
    \/ self.numer > 0 /\ self.denom > 0
    \/ self.numer < 0 /\ self.denom < 0

is_negative(self) ==
    \/ self.numer < 0 /\ self.denom > 0
    \/ self.numer > 0 /\ self.denom < 0

abs(self) ==
    IF is_negative(self) THEN neg(self) ELSE new_raw(self.numer, self.denom)

signum(self) ==
    IF is_positive(self) THEN new_raw(1, 1)
    ELSE IF self.numer = 0 THEN new_raw(0, 1)
    ELSE neg(one)

----------------------------------------------------------------------------
(* Text: Display and FromStr.  A string is a sequence of one-character      *)
(* strings.                                                                 *)

DigitChars == <<"0", "1", "2", "3", "4", "5", "6", "7", "8", "9">>

\* char::to_digit(10): the digit's value, or -1 for any other character.
to_digit(c) ==
    IF \E i \in 1..10 : DigitChars[i] = c
    THEN (CHOOSE i \in 1..10 : DigitChars[i] = c) - 1
    ELSE -1

\* The decimal digits of a natural number, most significant first.
RECURSIVE Decimal(_)
Decimal(v) ==
    IF v < 10 THEN <<DigitChars[v + 1]>>
    ELSE Decimal(v \div 10) \o <<DigitChars[(v % 10) + 1]>>

\* T's Display: decimal, with a minus sign for a negative value.
T_to_string(v) == IF v < 0 THEN <<"-">> \o Decimal(-v) ELSE Decimal(v)

\* The digit loop of T's FromStr: result = result * 10 +- digit, each step
\* checked; a non-digit or a value outside T is an error (None; Some(v) is
\* Ok(v)).
RECURSIVE Accumulate(_, _, _)
Accumulate(digits, result, positive) ==
    IF digits = <<>> THEN OptSome(result)
    ELSE LET digit == to_digit(Head(digits)) IN
         IF digit < 0 THEN OptNone
         ELSE LET shifted == T_checked_mul(result, 10) IN
              IF ~shifted.some THEN OptNone
              ELSE LET next == IF positive
                               THEN T_checked_add(shifted.val, digit)
                               ELSE T_checked_sub(shifted.val, digit)
                   IN  IF ~next.some THEN OptNone
                       ELSE Accumulate(Tail(digits), next.val, positive)

\* T's FromStr (decimal): an optional sign ('-' only for a signed T) and at
\* least one digit; nothing is trimmed.
T_from_str(s) ==
    IF s = <<>> THEN OptNone
    ELSE IF Head(s) \in {"+", "-"} /\ Len(s) = 1 THEN OptNone
    ELSE IF Head(s) = "+" THEN Accumulate(Tail(s), 0, TRUE)
    ELSE IF Head(s) = "-" /\ signed THEN Accumulate(Tail(s), 0, FALSE)
    ELSE Accumulate(s, 0, TRUE)

\* Display for Ratio<T>
to_string(self) ==
    IF self.denom = 1 THEN T_to_string(self.numer)
    ELSE T_to_string(self.numer) \o <<"/">> \o T_to_string(self.denom)

\* s.splitn(2, '/'): s itself, or the text before the first '/' and the
\* text after it.
splitn(s) ==
    IF \E i \in 1..Len(s) : s[i] = "/"
    THEN LET i == CHOOSE i \in 1..Len(s) :
                     s[i] = "/" /\ \A j \in 1..(i - 1) : s[j] # "/"
         IN  <<SubSeq(s, 1, i - 1), SubSeq(s, i + 1, Len(s))>>
    ELSE <<s>>

\* Result<Ratio<T>, ParseRatioError>, or the panic of Ratio::new.
Ok(r) == [kind |-> IF r.fault THEN "Panic" ELSE "Ok",
          numer |-> r.numer, denom |-> r.denom]
Err(error) == [kind |-> error, numer |-> 0, denom |-> 0]

\* from_str without the test for a zero denominator.
from_str_no_zero_test(s) ==
    LET split == splitn(s)
        num == T_from_str(split[1])
    IN  IF ~num.some THEN Err("ParseError")
        ELSE LET d == IF Len(split) > 1 THEN split[2] ELSE <<"1">>
                 den == T_from_str(d)
             IN  IF ~den.some THEN Err("ParseError")
                 ELSE Ok(new(num.val, den.val))

\* FromStr for Ratio<T>
from_str(s) ==
    LET split == splitn(s)
        num == T_from_str(split[1])
    IN  IF ~num.some THEN Err("ParseError")
        ELSE LET d == IF Len(split) > 1 THEN split[2] ELSE <<"1">>
                 den == T_from_str(d)
             IN  IF ~den.some THEN Err("ParseError")
                 ELSE IF den.val = 0 THEN Err("ZeroDenominator")
                 ELSE Ok(new(num.val, den.val))

\* reduced(&self): a reduced copy of self.
reduced(self) == reduce(self.numer, self.denom)

\* deserialize accepting every pair.
deserialize_no_zero_test(pair) == Ok(new_raw(pair[1], pair[2]))

\* serde::Deserialize for Ratio<T>, from the deserialized pair
\* (numer, denom): Result<Ratio<T>, D::Error>.
deserialize(pair) ==
    IF pair[2] = 0 THEN Err("invalid_value")
    ELSE Ok(new_raw(pair[1], pair[2]))

\* The digit loop of T::from_str_radix: result = result * radix +- digit,
\* each step checked; a character that is not a digit of the radix (at most
\* 10 here) or a value outside T is an error.
RECURSIVE AccumulateRadix(_, _, _, _)
AccumulateRadix(digits, radix, result, positive) ==
    IF digits = <<>> THEN OptSome(result)
    ELSE LET digit == to_digit(Head(digits)) IN
         IF digit < 0 \/ digit >= radix THEN OptNone
         ELSE LET shifted == T_checked_mul(result, radix) IN
              IF ~shifted.some THEN OptNone
              ELSE LET next == IF positive
                               THEN T_checked_add(shifted.val, digit)
                               ELSE T_checked_sub(shifted.val, digit)
                   IN  IF ~next.some THEN OptNone
                       ELSE AccumulateRadix(Tail(digits), radix, next.val,
                                            positive)

\* T::from_str_radix(s, radix): an optional sign ('-' only for a signed T)
\* and at least one digit of the radix.
T_from_str_radix(s, radix) ==
    IF s = <<>> THEN OptNone
    ELSE IF Head(s) \in {"+", "-"} /\ Len(s) = 1 THEN OptNone
    ELSE IF Head(s) = "+" THEN AccumulateRadix(Tail(s), radix, 0, TRUE)
    ELSE IF Head(s) = "-" /\ signed
    THEN AccumulateRadix(Tail(s), radix, 0, FALSE)
    ELSE AccumulateRadix(s, radix, 0, TRUE)

\* Num::from_str_radix for Ratio<T>
from_str_radix(s, radix) ==
    LET split == splitn(s) IN
    IF Len(split) = 2
    THEN LET numer == T_from_str_radix(split[1], radix) IN
         IF ~numer.some THEN Err("ParseError")
         ELSE LET denom == T_from_str_radix(split[2], radix) IN
              IF ~denom.some THEN Err("ParseError")
              ELSE IF denom.val = 0 THEN Err("ZeroDenominator")
              ELSE Ok(new(numer.val, denom.val))
    ELSE Err("ParseError")

----------------------------------------------------------------------------
(* Approximation of a float by a ratio. A float is [class, neg, num, den]: *)
(* NaN, an infinity, or the rational num/den with its sign bit; the float  *)
(* arithmetic of the loop is exact on these values.                        *)

\* <F as NumCast>::from(T::max_value()): exact when F holds every value of
\* T, rounded up to the next power of two when it does not (f64 for i64).
t_max_f(exact) == IF exact THEN TMax ELSE TMax + 1

\* <T as NumCast>::from(q) for a finite q >= 0: q truncated toward zero, or
\* None when that is not a value of T.
T_from_float(q) ==
    IF q.num \div q.den <= TMax THEN OptSome(q.num \div q.den) ELSE OptNone

\* The overflow test of the loop without its two tests on the sums.
overflows_products_only(a, n0, d0, n1, d1) ==
    /\ a # 0
    /\ \/ n1 > TMax \div a
       \/ d1 > TMax \div a

\* "Prevent overflow": the test that breaks out of the loop, evaluated from
\* left to right (each product is formed only when it fits).
overflows(a, n0, d0, n1, d1) ==
    /\ a # 0
    /\ \/ n1 > TMax \div a
       \/ d1 > TMax \div a
       \/ a * n1 > TMax - n0
       \/ a * d1 > TMax - d0

\* The end of approximate_float_unsigned returning the ratio whatever d1 is.
convergent_unchecked(n1, d1) == Some(new_raw(n1, d1))

\* The end of approximate_float_unsigned, after the loop:
\*   if d1.is_zero() { return None; }  Some(Ratio::new(n1, d1))
convergent(n1, d1) == IF d1 = 0 THEN None ELSE Some(new(n1, d1))

----------------------------------------------------------------------------
(* Exact rational arithmetic, for stating the properties.                   *)

IsReduced(r) == r.denom > 0 /\ GcdNat(Abs(r.numer), Abs(r.denom)) = 1

\* n1/d1 and n2/d2 are the same rational number (d1, d2 /= 0).
SameValue(n1, d1, n2, d2) == n1 * d2 = n2 * d1

Sign(v) == IF v < 0 THEN -1 ELSE IF v > 0 THEN 1 ELSE 0

\* The exact order of r and s (non-zero denominators).
ExactOrd(r, s) ==
    LET v == (r.numer * s.denom - s.numer * r.denom) * Sign(r.denom) * Sign(s.denom)
    IN  IF v < 0 THEN "Less" ELSE IF v > 0 THEN "Greater" ELSE "Equal"

\* The exact numerator and denominator of x `o` y before reduction, by the
\* identities of the arithmetic suite (for "rem" and "div", y is non-zero).
ExactNumer(o, a, b) ==
    CASE o = "add" -> a.numer * b.denom + a.denom * b.numer
      [] o = "sub" -> a.numer * b.denom - a.denom * b.numer
      [] o = "rem" -> TruncRem(a.numer * b.denom, a.denom * b.numer)
      [] o = "mul" -> a.numer * b.numer
      [] o = "div" -> a.numer * b.denom

ExactDenom(o, a, b) ==
    IF o = "div" THEN a.denom * b.numer ELSE a.denom * b.denom

\* n/d in lowest terms with a positive denominator (d /= 0).
Reduced(n, d) ==
    LET g == GcdNat(Abs(n), Abs(d))
    IN  Ratio((Sign(d) * n) \div g, Abs(d) \div g)

ExactResult(o, a, b) == Reduced(ExactNumer(o, a, b), ExactDenom(o, a, b))

\* x `o` y is defined: the divisor of / and % is not zero.
Defined(o, a, b) == (o \in {"div", "rem"}) => b.numer # 0

\* The products the operator forms.
Products(o, a, b) ==
    CASE o \in {"add", "sub", "rem"} ->
            {a.numer * b.denom, a.denom * b.numer, a.denom * b.denom}
      [] o = "mul" -> {a.numer * b.numer, a.denom * b.denom}
      [] o = "div" -> {a.numer * b.denom, a.denom * b.numer}

\* Every exact value the operator computes on the way to its result: the
\* products, their sum, difference or remainder (with the quotient of that
\* division), the gcd taken by reduce, and the reduced fields.
Intermediates(o, a, b) ==
    Products(o, a, b)
    \cup {ExactNumer(o, a, b),
          GcdNat(Abs(ExactNumer(o, a, b)), Abs(ExactDenom(o, a, b))),
          ExactResult(o, a, b).numer, ExactResult(o, a, b).denom}
    \cup (IF o = "rem"
          THEN {TruncDiv(a.numer * b.denom, a.denom * b.numer)}
          ELSE {})

Fits(o, a, b) == \A v \in Intermediates(o, a, b) : InRange(v)

----------------------------------------------------------------------------
(* States and operations.                                                   *)

NoRes == [kind |-> "none"]

Config ==
    /\ signed \in BOOLEAN
    /\ checks \in BOOLEAN

\* The ratios a constructor returns.
Built(c) ==
    IF c = "new"
    THEN {Value(new(n, d)) : n \in T, d \in T} \ {Value(Panic)}
    ELSE {Ratio(n, d) : n \in T, d \in T}

\* Ratio::new(numer, denom), the result kept in x.
New(numer, denom) ==
    LET r == new(numer, denom) IN
    /\ op' = "new"
    /\ res' = [kind |-> "new", numer |-> numer, denom |-> denom, fault |-> r.fault]
    /\ x' = IF r.fault THEN zero ELSE Value(r)
    /\ by' = "new"
    /\ UNCHANGED <<signed, checks, y, text, call>>

InitNew ==
    /\ Config
    /\ by = "new"
    /\ x = zero
    /\ y = zero
    /\ op = "init"
    /\ res = NoRes
    /\ text = <<>>
    /\ call = [pc |-> "none"]

NextNew == \E numer \in T, denom \in T : New(numer, denom)

SpecNew == InitNew /\ [][NextNew]_vars

\* Two ratios built by the same constructor.
InitPair(ctors) ==
    /\ Config
    /\ by \in ctors
    /\ x \in Built(by)
    /\ y \in Built(by)
    /\ op = "init"
    /\ res = NoRes
    /\ text = <<>>
    /\ call = [pc |-> "none"]

\* x.cmp(&y) and y.cmp(&x).
Cmp ==
    /\ op' = "cmp"
    /\ res' = [kind |-> "cmp", ord |-> cmp(x, y), rev |-> cmp(y, x)]
    /\ UNCHANGED <<signed, checks, by, x, y, text, call>>

\* x == y.
Eq ==
    /\ op' = "eq"
    /\ res' = [kind |-> "eq", eq |-> eq(x, y)]
    /\ UNCHANGED <<signed, checks, by, x, y, text, call>>

\* x.hash(state) and y.hash(state), each into a fresh hasher.
Hash ==
    /\ op' = "hash"
    /\ res' = [kind |-> "hash", hx |-> hash(x), hy |-> hash(y)]
    /\ UNCHANGED <<signed, checks, by, x, y, text, call>>

InitOrd == InitPair({"new", "new_raw"})
NextOrd == Cmp \/ Eq
SpecOrd == InitOrd /\ [][NextOrd]_vars

InitHash == InitPair({"new_raw"})
NextHash == Hash
SpecHash == InitHash /\ [][NextHash]_vars

NonZeroDenoms == x.denom # 0 /\ y.denom # 0

\* One ratio; y is not used.
InitOne(ctors) ==
    /\ Config
    /\ by \in ctors
    /\ x \in Built(by)
    /\ y = zero
    /\ op = "init"
    /\ res = NoRes
    /\ text = <<>>
    /\ call = [pc |-> "none"]

\* A binary operator that returns a new value: x `name` y.
Binary(name, out) ==
    /\ op' = name
    /\ res' = [kind |-> "ratio", out |-> out]
    /\ UNCHANGED <<signed, checks, by, x, y, text, call>>

Add == Binary("add", add(x, y))
Sub == Binary("sub", sub(x, y))
Mul == Binary("mul", mul(x, y))
Div == Binary("div", div(x, y))
Rem == Binary("rem", rem(x, y))

ArithOps == {"add", "sub", "mul", "div", "rem"}

InitArith == InitPair({"new"})
NextArith == Add \/ Sub \/ Mul \/ Div \/ Rem
SpecArith == InitArith /\ [][NextArith]_vars

\* x / c for an integer c.
DivT(c) ==
    /\ op' = "div_T"
    /\ res' = [kind |-> "ratio", arg |-> c, out |-> div_T(x, c)]
    /\ UNCHANGED <<signed, checks, by, x, y, text, call>>

\* An in-place operator: x is left as the operator leaves it, panic or not.
Assign(name, self, arg, out) ==
    /\ op' = name
    /\ res' = [kind |-> "assign", self |-> self, arg |-> arg, out |-> out]
    /\ x' = Value(out)
    /\ by' = "assign"
    /\ UNCHANGED <<signed, checks, y, text, call>>

\* x /= y
DivAssign == Assign("div_assign", x, y, div_assign(x, y))

\* x /= c for an integer c.
DivAssignT(c) == Assign("div_assign_T", x, c, div_assign_T(x, c))

InitDivZero == InitPair({"new", "new_raw"})
NextDivZero ==
    \/ Div
    \/ DivAssign
    \/ \E c \in T : DivT(c)
    \/ \E c \in T : DivAssignT(c)
SpecDivZero == InitDivZero /\ [][NextDivZero]_vars

Checked(name, out) ==
    /\ op' = name
    /\ res' = [kind |-> "checked", out |-> out]
    /\ UNCHANGED <<signed, checks, by, x, y, text, call>>

CheckedAdd == Checked("add", checked_add(x, y))
CheckedSub == Checked("sub", checked_sub(x, y))
CheckedMul == Checked("mul", checked_mul(x, y))
CheckedDiv == Checked("div", checked_div(x, y))

InitChecked == InitPair({"new"})
NextChecked == CheckedAdd \/ CheckedSub \/ CheckedMul \/ CheckedDiv
SpecChecked == InitChecked /\ [][NextChecked]_vars

\* x == x.trunc() + x.fract()
trunc_plus_fract(self) ==
    LET t == trunc(self)
        f == fract(self)
    IN  IF t.fault \/ f.fault THEN Panic ELSE add(Value(t), Value(f))

TruncFract ==
    LET sum == trunc_plus_fract(x) IN
    /\ op' = "trunc_fract"
    /\ res' = [kind |-> "trunc_fract", sum |-> sum,
               eq |-> IF sum.fault THEN "Panic" ELSE eq(x, Value(sum))]
    /\ UNCHANGED <<signed, checks, by, x, y, text, call>>

InitFract == InitOne({"new", "new_raw"})
NextFract == TruncFract
SpecFract == InitFract /\ [][NextFract]_vars

\* An operation of one ratio that returns a new value.
Unary(name, out) ==
    /\ op' = name
    /\ res' = [kind |-> "unary", out |-> out]
    /\ UNCHANGED <<signed, checks, by, x, y, text, call>>

\* x.recip(), and x * x.recip() == 1.
Recip ==
    LET out == recip(x)
        prod == IF out.fault THEN Panic ELSE mul(x, Value(out))
    IN
    /\ op' = "recip"
    /\ res' = [kind |-> "recip", out |-> out, prod |-> prod,
               eq |-> IF prod.fault THEN "Panic" ELSE eq(Value(prod), one)]
    /\ UNCHANGED <<signed, checks, by, x, y, text, call>>

\* x `name` c, or c `name` x, for an integer c.
BinaryT(name, c, out) ==
    /\ op' = name
    /\ res' = [kind |-> "ratio", arg |-> c, out |-> out]
    /\ UNCHANGED <<signed, checks, by, x, y, text, call>>

\* The operations that leave x as it is: the roundings, the reciprocal, and
\* c op x for a primitive integer c.
NextRound ==
    \/ Unary("round", round(x))
    \/ Unary("floor", floor(x))
    \/ Unary("ceil", ceil(x))
    \/ Recip
    \/ \E c \in T :
        \/ BinaryT("primitive_add", c, primitive_add(c, x))
        \/ BinaryT("primitive_sub", c, primitive_sub(c, x))
        \/ BinaryT("primitive_mul", c, primitive_mul(c, x))
        \/ BinaryT("primitive_div", c, primitive_div(c, x))
SpecRound == InitOne({"new"}) /\ [][NextRound]_vars

\* x += y, x -= y, x *= y, x /= y, x %= y
NextAssign ==
    \/ Assign("add_assign", x, y, arith_assign("add", x, y))
    \/ Assign("sub_assign", x, y, arith_assign("sub", x, y))
    \/ Assign("mul_assign", x, y, mul_assign(x, y))
    \/ DivAssign
    \/ Assign("rem_assign", x, y, arith_assign("rem", x, y))
SpecAssign == InitPair({"new"}) /\ [][NextAssign]_vars

\* x op c and x op= c for an integer c.
NextWithT ==
    \E c \in T :
        \/ BinaryT("add_T", c, arith_impl_T("add", x, c))
        \/ BinaryT("sub_T", c, arith_impl_T("sub", x, c))
        \/ BinaryT("mul_T", c, mul_T(x, c))
        \/ DivT(c)
        \/ BinaryT("rem_T", c, arith_impl_T("rem", x, c))
        \/ Assign("add_assign_T", x, c, arith_assign_T("add", x, c))
        \/ Assign("sub_assign_T", x, c, arith_assign_T("sub", x, c))
        \/ Assign("mul_assign_T", x, c, mul_assign_T(x, c))
        \/ DivAssignT(c)
        \/ Assign("rem_assign_T", x, c, arith_assign_T("rem", x, c))
SpecWithT == InitOne({"new"}) /\ [][NextWithT]_vars

\* Longest input string of from_str.
MaxLen == 5

\* The characters of the input strings: digits, signs, the separator, a
\* blank and a letter.
Alphabet == {"0", "1", "4", "-", "+", "/", " ", "a"}

\* A string to parse, of at most MaxLen characters.
InitFromStr ==
    /\ Config
    /\ by = "new"
    /\ x = zero
    /\ y = zero
    /\ op = "init"
    /\ res = NoRes
    /\ text \in UNION {[1..n -> Alphabet] : n \in 0..MaxLen}
    /\ call = [pc |-> "none"]

\* text.parse::<Ratio<T>>()
FromStr ==
    /\ op' = "from_str"
    /\ res' = [kind |-> "parsed", out |-> from_str(text)]
    /\ UNCHANGED <<signed, checks, by, x, y, text, call>>

SpecFromStr == InitFromStr /\ [][FromStr]_vars

\* x.to_string().parse() == Ok(x): the rendered text, what it parses to, and
\* the comparison of the parsed ratio with x.
ToFromStr ==
    LET s == to_string(x)
        out == from_str(s)
    IN
    /\ op' = "to_from_str"
    /\ text' = s
    /\ res' = [kind |-> "parsed", out |-> out,
               eq |-> IF out.kind = "Ok" THEN eq(Value(out), x) ELSE "false"]
    /\ UNCHANGED <<signed, checks, by, x, y, call>>

SpecText == InitOne({"new", "new_raw"}) /\ [][ToFromStr]_vars

\* Largest magnitude of the exponent of pow.
MaxExpon == 2

\* A public operation that completed (a panic ends the sequence): x becomes
\* its result.
Step(out) ==
    /\ ~out.fault
    /\ op' = "step"
    /\ res' = [kind |-> "step"]
    /\ x' = Value(out)
    /\ UNCHANGED <<signed, checks, by, y, text, call>>

\* The public operations other than new_raw: with the ratio y, with an
\* integer c, of x alone (neg, abs and signum exist for a signed T only),
\* pow, the conversion from a pair, and the parsing of y's text.
NextOps ==
    \/ Step(add(x, y))
    \/ Step(sub(x, y))
    \/ Step(mul(x, y))
    \/ Step(div(x, y))
    \/ Step(rem(x, y))
    \/ Step(arith_assign("add", x, y))
    \/ Step(arith_assign("sub", x, y))
    \/ Step(mul_assign(x, y))
    \/ Step(div_assign(x, y))
    \/ Step(arith_assign("rem", x, y))
    \/ \E c \in T :
        \/ Step(arith_impl_T("add", x, c))
        \/ Step(arith_impl_T("sub", x, c))
        \/ Step(mul_T(x, c))
        \/ Step(div_T(x, c))
        \/ Step(arith_impl_T("rem", x, c))
        \/ Step(arith_assign_T("add", x, c))
        \/ Step(arith_assign_T("sub", x, c))
        \/ Step(mul_assign_T(x, c))
        \/ Step(div_assign_T(x, c))
        \/ Step(arith_assign_T("rem", x, c))
    \/ Step(recip(x))
    \/ Step(floor(x))
    \/ Step(ceil(x))
    \/ Step(round(x))
    \/ Step(trunc(x))
    \/ Step(fract(x))
    \/ signed /\ Step(neg(x))
    \/ signed /\ Step(abs(x))
    \/ signed /\ Step(signum(x))
    \/ \E expon \in (-MaxExpon)..MaxExpon : Step(pow(x, expon))
    \/ \E n \in T, d \in T : Step(from_pair(<<n, d>>))
    \/ LET out == from_str(to_string(y))
       IN  out.kind = "Ok" /\ Step(new_raw(out.numer, out.denom))
\* x and y built by Ratio::new (from_integer(t) is new(t, 1)).
SpecOps == InitPair({"new"}) /\ [][NextOps]_vars

\* The operations on a ratio that need not be reduced: x is any pair of
\* fields, which serialize writes as (numer, denom).
NextRaw ==
    \/ Unary("deserialize", deserialize(<<x.numer, x.denom>>))
    \/ Unary("reduced", reduced(x))
    \/ \E expon \in (-MaxExpon)..MaxExpon : BinaryT("pow", expon, pow(x, expon))
SpecRaw == InitOne({"new_raw"}) /\ [][NextRaw]_vars

\* Ratio::from_str_radix(text, radix)
FromStrRadix(radix) ==
    /\ op' = "from_str_radix"
    /\ res' = [kind |-> "parsed", radix |-> radix, out |-> from_str_radix(text, radix)]
    /\ UNCHANGED <<signed, checks, by, x, y, text, call>>

\* The text parsed in base 2 or in base 10.
SpecRadix == InitFromStr /\ [][\E radix \in {2, 10} : FromStrRadix(radix)]_vars

\* x.cmp(&y) call by call: x and y are the operands of the running call,
\* res.depth the number of calls below the first one, res.self and
\* res.other the operands of the first call. The call that returns ends the
\* comparison, its ordering reversed once for every caller.
CmpCall ==
    LET c == cmp_call(x, y)
        depth == IF op = "init" THEN 0 ELSE res.depth
        first == IF op = "init" THEN <<x, y>> ELSE <<res.self, res.other>>
    IN
    /\ op \in {"init", "cmp_recurse"}
    /\ op' = IF c.recurse THEN "cmp_recurse" ELSE "cmp_return"
    /\ x' = c.self
    /\ y' = c.other
    /\ res' = [kind |-> "cmp_call", self |-> first[1], other |-> first[2],
               depth |-> IF c.recurse THEN depth + 1 ELSE depth,
               ord |-> IF depth % 2 = 1 THEN reverse(c.ord) ELSE c.ord]
    /\ UNCHANGED <<signed, checks, by, text, call>>

SpecCmp == InitPair({"new", "new_raw"}) /\ [][CmpCall]_vars

\* Largest numerator and denominator of the floats to approximate.
MaxFloat == 9

\* Largest max_iterations.
MaxIter == 3

\* A call $approx(val, max_error, max_iterations) of from_f32 / from_f64;
\* call.exact tells whether F holds T::max_value() exactly (an F that does
\* not has no value strictly between T::max_value() and the power of two
\* above it).
InitApprox ==
    /\ Config
    /\ by = "new"
    /\ x = zero
    /\ y = zero
    /\ op = "init"
    /\ res = NoRes
    /\ text = <<>>
    /\ \E class \in {"nan", "inf", "finite"}, sign \in BOOLEAN,
          num \in 0..MaxFloat, den \in 0..MaxFloat,
          error \in {1, MaxFloat * MaxFloat + 1},
          max_iterations \in 0..MaxIter, exact \in BOOLEAN :
        /\ class = "nan" => num = 0 /\ den = 0
        /\ class = "inf" => num = 1 /\ den = 0
        /\ class = "finite" => den > 0 /\ GcdNat(num, den) = 1
        /\ exact \/ ~(TMax * den < num /\ num < (TMax + 1) * den)
        /\ call = [pc |-> "call",
                   val |-> [class |-> class, neg |-> sign,
                            num |-> num, den |-> den],
                   max_error |-> [num |-> 1, den |-> error],
                   max_iterations |-> max_iterations, exact |-> exact]

\* approximate_float (a signed T) or approximate_float_unsigned (an unsigned
\* T) up to the loop: the sign is set aside, NaN, a negative value and a
\* value above T::max_value() return None, the locals are initialised.
ApproxCall ==
    LET val == call.val
        abs_val == IF signed THEN [val EXCEPT !.neg = FALSE] ELSE val
        rejected ==
            \/ abs_val.class = "nan"
            \/ abs_val.neg /\ (abs_val.class = "inf" \/ abs_val.num > 0)
            \/ abs_val.class = "inf"
            \/ abs_val.num > t_max_f(call.exact) * abs_val.den
        locals(pc) ==
            [pc |-> pc, val |-> abs_val, max_error |-> call.max_error,
             max_iterations |-> call.max_iterations, exact |-> call.exact,
             negative |-> signed /\ val.neg,
             q |-> [num |-> abs_val.num, den |-> abs_val.den],
             n0 |-> 0, d0 |-> 1, n1 |-> 1, d1 |-> 0, i |-> 0,
             computed |-> {}]
    IN
    /\ call.pc = "call"
    /\ op' = "approximate_float"
    /\ call' = locals(IF rejected THEN "done"
                      ELSE IF call.max_iterations = 0 THEN "end" ELSE "loop")
    /\ res' = IF rejected THEN [kind |-> "approx", out |-> None] ELSE res
    /\ UNCHANGED <<signed, checks, by, x, y, text>>

\* One iteration of `for _ in 0..max_iterations`: the next term a of the
\* continued fraction of q, the overflow test, the next convergent n/d
\* (call.computed keeps the exact values of its products and sums), its
\* reduction, the two tests that end the loop, and q = 1/f.
ApproxLoop ==
    LET q == call.q
        a == T_from_float(q)
        f == [num |-> q.num - a.val * q.den, den |-> q.den]
        an == T_mul(a.val, call.n1)
        ad == T_mul(a.val, call.d1)
        n == T_add(an.val, call.n0)
        d == T_add(ad.val, call.d0)
        g == gcd(n.val, d.val)
        n1 == IF g.val # 0 THEN T_div(n.val, g.val) ELSE n
        d1 == IF g.val # 0 THEN T_div(d.val, g.val) ELSE d
        close == /\ d.val # 0
                 /\ Abs(n.val * call.val.den - d.val * call.val.num)
                        * call.max_error.den
                    < call.max_error.num * Abs(d.val) * call.val.den
        small == f.num * t_max_f(call.exact) < f.den
        assigned == [call EXCEPT
                        !.n0 = call.n1, !.d0 = call.d1,
                        !.n1 = n1.val, !.d1 = d1.val,
                        !.computed = {a.val * call.n1, a.val * call.d1,
                                      a.val * call.n1 + call.n0,
                                      a.val * call.d1 + call.d0}]
    IN
    /\ call.pc = "loop"
    /\ op' = "iteration"
    /\ call' =
        IF ~a.some \/ overflows(a.val, call.n0, call.d0, call.n1, call.d1)
        THEN [call EXCEPT !.pc = "end"]
        ELSE IF an.fault \/ ad.fault \/ n.fault \/ d.fault
                \/ g.fault \/ n1.fault \/ d1.fault
        THEN [assigned EXCEPT !.pc = "panic"]
        ELSE IF close \/ small
        THEN [assigned EXCEPT !.pc = "end"]
        ELSE [assigned EXCEPT
                !.q = [num |-> f.den, den |-> f.num],
                !.i = call.i + 1,
                !.pc = IF call.i + 1 = call.max_iterations
                       THEN "end" ELSE "loop"]
    /\ res' = IF call'.pc = "panic"
              THEN [kind |-> "approx", out |-> Some(Panic)] ELSE res
    /\ UNCHANGED <<signed, checks, by, x, y, text>>

\* After the loop: None for a zero d1, otherwise Some(Ratio::new(n1, d1)),
\* negated by approximate_float when val had its sign bit set.
ApproxReturn ==
    LET r == convergent(call.n1, call.d1)
    IN
    /\ call.pc = "end"
    /\ op' = "approximate_float"
    /\ call' = [call EXCEPT !.pc = "done"]
    /\ res' = [kind |-> "approx",
               out |-> IF call.negative /\ r.kind = "Some"
                       THEN Some(neg(Ratio(r.numer, r.denom))) ELSE r]
    /\ UNCHANGED <<signed, checks, by, x, y, text>>

NextApprox == ApproxCall \/ ApproxLoop \/ ApproxReturn
SpecApprox == InitApprox /\ [][NextApprox]_vars

----------------------------------------------------------------------------
\* C1: Ratio::new(numer, denom) with denom /= 0 returns the ratio of the same
\* value in canonical form (gcd 1, denom > 0); with denom = 0 it panics.
C1_NewCanonical ==
    op = "new" =>
        IF res.denom = 0 THEN res.fault
        ELSE /\ ~res.fault
             /\ IsReduced(x)
             /\ SameValue(x.numer, x.denom, res.numer, res.denom)

\* C2: for ratios built by new_raw with non-zero denominators, == is true
\* exactly when the two have the same value (a*d = c*b).
C2_EqByValue ==
    (op = "eq" /\ by = "new_raw" /\ NonZeroDenoms) =>
        res.eq = (IF SameValue(x.numer, x.denom, y.numer, y.denom)
                  THEN "true" ELSE "false")

\* C3: two pairs with non-zero denominators and the same value feed the
\* same sequence of integers to the hasher (and a panic of one is a panic of
\* the other).
C3_HashAgreesWithValue ==
    (op = "hash" /\ NonZeroDenoms
        /\ SameValue(x.numer, x.denom, y.numer, y.denom)) =>
        res.hx = res.hy

\* Two different representations of one value, one of them with a negative
\* denominator, were hashed to a sequence of several terms.
C3_Witness ==
    /\ op = "hash"
    /\ NonZeroDenoms
    /\ SameValue(x.numer, x.denom, y.numer, y.denom)
    /\ x # y
    /\ x.denom < 0
    /\ ~res.hx.fault
    /\ Len(res.hx.seq) >= 3

C5_CmpExactOnRaw ==
    (op = "cmp" /\ by = "new_raw" /\ NonZeroDenoms) =>
        /\ res.ord = ExactOrd(x, y)
        /\ res.rev = reverse(res.ord)

\* C6 (as stated): for every pair of reduced ratios each binary operator
\* returns the reduced form of the exact result.
C6_ArithExactAlways ==
    (res.kind = "ratio" /\ op \in ArithOps /\ IsReduced(x) /\ IsReduced(y)
        /\ Defined(op, x, y)) =>
        /\ ~res.out.fault
        /\ Value(res.out) = ExactResult(op, x, y)

\* C6 (amended): for every pair of reduced ratios for which every value the
\* operator computes lies within T's range, each binary operator returns the
\* reduced form of the exact result; / and % by a zero-valued ratio panic.
C6_ArithExactInRange ==
    (res.kind = "ratio" /\ op \in ArithOps /\ IsReduced(x) /\ IsReduced(y)) =>
        IF Defined(op, x, y)
        THEN Fits(op, x, y) =>
                /\ ~res.out.fault
                /\ Value(res.out) = ExactResult(op, x, y)
                /\ IsReduced(Value(res.out))
        ELSE res.out.fault

\* A quotient by a negative ratio, of a ratio that is not an integer, was
\* computed within range.
C6_Witness ==
    /\ op = "div"
    /\ res.kind = "ratio"
    /\ IsReduced(x) /\ IsReduced(y)
    /\ y.numer < 0
    /\ x.denom > 1
    /\ Fits(op, x, y)
    /\ ~res.out.fault
    /\ res.out.numer < 0
    /\ res.out.denom > 1

\* The operation divided x (with a non-zero denominator) by a zero divisor.
DividedByZero ==
    \/ op = "div" /\ res.kind = "ratio" /\ NonZeroDenoms /\ y.numer = 0
    \/ op = "div_T" /\ x.denom # 0 /\ res.arg = 0
    \/ op = "div_assign" /\ res.self.denom # 0 /\ y.denom # 0 /\ y.numer = 0
    \/ op = "div_assign_T" /\ res.self.denom # 0 /\ res.arg = 0

\* C7: a division by a zero-valued divisor (x / y, x / 0, x /= y, x /= 0)
\* panics: the operation never completes, so it neither returns nor leaves
\* in x a ratio whose denominator is zero.
C7_DivByZeroFaults == DividedByZero => res.out.fault

\* The exact values a checked operator forms before reducing.
CheckedIntermediates(o, a, b) == Products(o, a, b) \cup {ExactNumer(o, a, b)}

\* C8: on reduced ratios (a non-zero divisor for checked_div) a checked
\* operator returns None when a product or the sum/difference is outside
\* T's range, and otherwise Some of the reduced exact result.
C8_CheckedNoneOrExact ==
    (res.kind = "checked" /\ IsReduced(x) /\ IsReduced(y) /\ Defined(op, x, y)) =>
        IF \E v \in CheckedIntermediates(op, x, y) : ~InRange(v)
        THEN res.out.kind = "None"
        ELSE /\ res.out.kind = "Some"
             /\ Value(res.out) = ExactResult(op, x, y)

\* C9: on reduced ratios the checked operators never panic and never
\* return a wrapped (inexact) value; checked_div by zero returns None.
C9_CheckedTotal ==
    (res.kind = "checked" /\ IsReduced(x) /\ IsReduced(y)) =>
        /\ res.out.kind # "Panic"
        /\ Defined(op, x, y) =>
              (res.out.kind = "Some" => Value(res.out) = ExactResult(op, x, y))
        /\ ~Defined(op, x, y) => res.out.kind = "None"

\* C10: for every ratio built by new or new_raw with a non-zero denominator,
\* x == x.trunc() + x.fract().
C10_TruncPlusFract ==
    (op = "trunc_fract" /\ x.denom # 0) => res.eq = "true"

\* The integer nearest to x (half-way cases away from zero), the greatest
\* integer <= x and the least integer >= x, for x with a positive
\* denominator.
RoundExact(r) == Sign(r.numer) * ((2 * Abs(r.numer) + r.denom) \div (2 * r.denom))
FloorExact(r) == r.numer \div r.denom
CeilExact(r) == -((-r.numer) \div r.denom)

\* C11: for every reduced ratio x, numerators and denominators at T's
\* minimum and maximum included, x.round() is the integer nearest to x with
\* half-way cases rounded away from zero, and it is computed without
\* overflow (no panic, no wrapped value).
C11_RoundNearest ==
    (op = "round" /\ IsReduced(x)) =>
        /\ ~res.out.fault
        /\ Value(res.out) = Ratio(RoundExact(x), 1)

\* A negative half-way case was rounded away from zero.
C11_Witness ==
    /\ op = "round"
    /\ IsReduced(x)
    /\ x.numer < 0
    /\ x.denom = 2
    /\ ~res.out.fault
    /\ res.out.numer = TruncDiv(x.numer, x.denom) - 1
    /\ res.out.denom = 1

\* C12: for every reduced ratio x, negative or not, with any in-range
\* numerator and denominator, x.floor() is the greatest integer <= x and
\* x.ceil() the least integer >= x, both with denominator 1.
C12_FloorCeilExact ==
    (op \in {"floor", "ceil"} /\ IsReduced(x)) =>
        /\ ~res.out.fault
        /\ Value(res.out) = Ratio(IF op = "floor" THEN FloorExact(x) ELSE CeilExact(x), 1)

OpOf ==
    [add_assign |-> "add", sub_assign |-> "sub", mul_assign |-> "mul",
     div_assign |-> "div", rem_assign |-> "rem",
     add_T |-> "add", sub_T |-> "sub", mul_T |-> "mul",
     div_T |-> "div", rem_T |-> "rem",
     add_assign_T |-> "add", sub_assign_T |-> "sub", mul_assign_T |-> "mul",
     div_assign_T |-> "div", rem_assign_T |-> "rem",
     primitive_add |-> "add", primitive_sub |-> "sub",
     primitive_mul |-> "mul", primitive_div |-> "div"]

BinaryResult(o, a, b) ==
    CASE o = "add" -> add(a, b)
      [] o = "sub" -> sub(a, b)
      [] o = "mul" -> mul(a, b)
      [] o = "div" -> div(a, b)
      [] o = "rem" -> rem(a, b)

AssignOps == {"add_assign", "sub_assign", "mul_assign", "div_assign", "rem_assign"}

\* C14: for every pair of reduced ratios a, b on which a `op` b does not
\* panic, `x = a; x op= b` does not panic and leaves in x the numerator and
\* the denominator of a `op` b, for op in + - * / %.
C14_AssignAgreesWithBinary ==
    (op \in AssignOps /\ IsReduced(res.self) /\ IsReduced(y)
        /\ ~BinaryResult(OpOf[op], res.self, y).fault) =>
        /\ ~res.out.fault
        /\ x = Value(BinaryResult(OpOf[op], res.self, y))

\* x %= y was applied, within T's range, to two reduced ratios that are not
\* integers, and left a non-zero remainder.
C14_Witness ==
    /\ op = "rem_assign"
    /\ IsReduced(res.self) /\ IsReduced(y)
    /\ res.self.denom > 1 /\ y.denom > 1
    /\ Fits("rem", res.self, y)
    /\ ~rem(res.self, y).fault
    /\ ~res.out.fault
    /\ x.numer # 0
    /\ x = Value(rem(res.self, y))

BinaryTOps == {"add_T", "sub_T", "mul_T", "div_T", "rem_T"}
AssignTOps == {"add_assign_T", "sub_assign_T", "mul_assign_T", "div_assign_T",
               "rem_assign_T"}

C16_PrimitiveAddSub ==
    (op \in {"primitive_add", "primitive_sub"} /\ IsReduced(x)
        /\ Fits(OpOf[op], Ratio(res.arg, 1), x)) =>
        /\ ~res.out.fault
        /\ Value(res.out) = ExactResult(OpOf[op], Ratio(res.arg, 1), x)

\* C17: for a primitive integer p and a reduced ratio r = n/d, p * r is
\* (p*n)/d and, for r not zero, p / r is (p*d)/n (whenever the products are
\* within T's range); p / r panics when r is zero.
C17_PrimitiveMulDiv ==
    (op \in {"primitive_mul", "primitive_div"} /\ IsReduced(x)) =>
        IF Defined(OpOf[op], Ratio(res.arg, 1), x)
        THEN Fits(OpOf[op], Ratio(res.arg, 1), x) =>
                /\ ~res.out.fault
                /\ Value(res.out) = ExactResult(OpOf[op], Ratio(res.arg, 1), x)
        ELSE res.out.fault

\* C18: every public operation other than new_raw that completes on reduced
\* ratios (reached from ratios built by Ratio::new) returns, or leaves in
\* place, a reduced ratio: denominator > 0 and gcd(numer, denom) = 1.
C18_OperationsKeepReduced ==
    res.kind = "step" => IsReduced(x)

\* The value of a string of decimal digits.
RECURSIVE DecimalValue(_)
DecimalValue(digits) ==
    IF digits = <<>> THEN 0
    ELSE 10 * DecimalValue(SubSeq(digits, 1, Len(digits) - 1))
            + to_digit(digits[Len(digits)])

\* t without its sign, and the integer a signed string of digits denotes.
Unsigned(t) == IF t # <<>> /\ t[1] \in {"+", "-"} THEN Tail(t) ELSE t
SignedValue(t) ==
    IF t[1] = "-" THEN -DecimalValue(Unsigned(t)) ELSE DecimalValue(Unsigned(t))

\* t is an integer of T in decimal: an optional sign, at least one digit and
\* nothing else, denoting a value of T ('-' only for a signed T).
IsInteger(t) ==
    /\ Unsigned(t) # <<>>
    /\ \A i \in 1..Len(Unsigned(t)) : to_digit(Unsigned(t)[i]) >= 0
    /\ t[1] = "-" => signed
    /\ InRange(SignedValue(t))

\* The positions of '/' in s.
Slashes(s) == {i \in 1..Len(s) : s[i] = "/"}

\* C19: from_str accepts exactly "n" (giving n/1) and "n/d" with d not zero
\* (giving what Ratio::new(n, d) gives), n and d integers of T; any other
\* string (more than one '/', an empty or non-integer part, blanks around
\* or inside) gives the ParseError error, and "n/d" with d zero the
\* ZeroDenominator error; the error cases neither panic nor return a ratio.
C19_FromStrAccepts ==
    op = "from_str" =>
        IF Slashes(text) = {} /\ IsInteger(text)
        THEN res.out = [kind |-> "Ok", numer |-> SignedValue(text), denom |-> 1]
        ELSE IF \E i \in Slashes(text) :
                    /\ IsInteger(SubSeq(text, 1, i - 1))
                    /\ IsInteger(SubSeq(text, i + 1, Len(text)))
        THEN LET i == CHOOSE i \in Slashes(text) :
                          /\ IsInteger(SubSeq(text, 1, i - 1))
                          /\ IsInteger(SubSeq(text, i + 1, Len(text)))
                 n == SignedValue(SubSeq(text, 1, i - 1))
                 d == SignedValue(SubSeq(text, i + 1, Len(text)))
             IN  IF d = 0 THEN res.out = Err("ZeroDenominator")
                 ELSE res.out = Ok(new(n, d))
        ELSE res.out = Err("ParseError")

\* A string with two separators between three integers was rejected as
\* malformed.
C19_Witness ==
    /\ op = "from_str"
    /\ text = <<"1", "/", "4", "/", "1">>
    /\ res.out = Err("ParseError")

\* C20: for every ratio r with a non-zero denominator, parsing the text r
\* renders to (the numerator alone when the denominator is one, otherwise
\* "numer/denom") returns Ok of a ratio equal to r.
C20_TextRoundTrip ==
    (op = "to_from_str" /\ x.denom # 0) =>
        /\ res.out.kind = "Ok"
        /\ res.eq = "true"

\* C21: deserializing a pair (numer, denom) with a zero denominator returns
\* an error and no ratio; a pair with a non-zero denominator returns the
\* ratio with exactly those two fields, not reduced and without a panic.
C21_DeserializeRejectsZero ==
    op = "deserialize" =>
        IF x.denom = 0
        THEN res.out = Err("invalid_value")
        ELSE res.out = [kind |-> "Ok", numer |-> x.numer, denom |-> x.denom]

\* The pair (2, 0) is rejected.
C21_Witness ==
    /\ op = "deserialize"
    /\ x = Ratio(2, 0)
    /\ res.out.kind = "invalid_value"

\* C23: for denom /= 0, reducing a reduced copy again leaves its numerator
\* and denominator as they are.
C23_ReduceIdempotent ==
    (op = "reduced" /\ x.denom # 0 /\ ~res.out.fault) =>
        reduced(Value(res.out)) = res.out

\* C29: for a reduced x and e < 0, x.pow(e) has the value of
\* x.pow(-e).recip() wherever that has one, and panics when x is zero.
C29_NegativePowIsRecip ==
    (op = "pow" /\ res.arg < 0 /\ IsReduced(x)) =>
        LET p == pow(x, -res.arg)
            inv == IF p.fault THEN Panic ELSE recip(Value(p))
        IN  IF x.numer = 0 THEN res.out.fault
            ELSE ~inv.fault =>
                    /\ ~res.out.fault
                    /\ SameValue(res.out.numer, res.out.denom,
                                 inv.numer, inv.denom)

\* C24 (as stated): when the denominators differ and the numerators are
\* equal, cmp returns the comparison of the denominators, reversed if the
\* shared numerator is negative and as it is otherwise.
C24_ReversedWhenNegative ==
    (op = "cmp" /\ x.denom # y.denom /\ x.numer = y.numer) =>
        res.ord = IF x.numer < 0 THEN reverse(T_cmp(x.denom, y.denom))
                  ELSE T_cmp(x.denom, y.denom)

\* C24 (amended): when the denominators differ and the numerators are equal,
\* cmp returns the comparison of the denominators as it is if the shared
\* numerator is negative, and reversed if it is zero or positive.
C24_ReversedUnlessNegative ==
    (op = "cmp" /\ x.denom # y.denom /\ x.numer = y.numer) =>
        res.ord = IF x.numer < 0 THEN T_cmp(x.denom, y.denom)
                  ELSE reverse(T_cmp(x.denom, y.denom))

\* 1/2 against 1/3: the denominators compare Less, the ratios Greater.
C24_Witness ==
    /\ op = "cmp"
    /\ x = Ratio(1, 2)
    /\ y = Ratio(1, 3)
    /\ res.ord = "Greater"

\* The exact floor quotient of p by q /= 0.
FloorQuotient(p, q) == IF q > 0 THEN p \div q ELSE (-p) \div (-q)

\* The floor quotients of the continued-fraction descent
\* (n, d) -> (d, n - d * floor(n / d)), down to a zero remainder.
RECURSIVE Quotients(_, _)
Quotients(n, d) ==
    IF d = 0 THEN <<>>
    ELSE <<FloorQuotient(n, d)>>
            \o Quotients(d, n - d * FloorQuotient(n, d))

\* The last divisor of that descent, the one that left the remainder zero.
RECURSIVE FinalDivisor(_, _)
FinalDivisor(n, d) ==
    IF d = 0 THEN n ELSE FinalDivisor(d, n - d * FloorQuotient(n, d))

\* C25 (as stated): hash feeds the hasher the floor quotients of the descent
\* in order, and then the final divisor of the descent.
C25_HashEndsWithFinalDivisor ==
    (op = "hash" /\ x.denom # 0 /\ ~res.hx.fault) =>
        res.hx.seq = Quotients(x.numer, x.denom)
                        \o <<FinalDivisor(x.numer, x.denom)>>

\* C25 (amended): hash feeds the hasher the floor quotients of the descent
\* in order, and then the zero remainder that ended it (the value 0).
C25_HashEndsWithZero ==
    (op = "hash" /\ x.denom # 0 /\ ~res.hx.fault) =>
        res.hx.seq = Quotients(x.numer, x.denom) \o <<0>>

\* 3/2 is hashed as the quotients 1 and 2 and then 0; its final divisor is 1.
C25_Witness ==
    /\ op = "hash"
    /\ x = Ratio(3, 2)
    /\ res.hx = HashOk(<<1, 2, 0>>)
    /\ FinalDivisor(x.numer, x.denom) = 1

\* C28: an in-place operator (+=, -=, *=, /=, %=) that panics leaves x with
\* the numerator and the denominator it had, and none leaves x with a zero
\* denominator.
C28_AssignAtomic ==
    op \in AssignOps =>
        /\ res.out.fault => x = res.self
        /\ x.denom # 0

\* C30: for every decimal input "n" or "n/d" (n and d integers of T),
\* from_str_radix(s, 10) returns what from_str(s) returns: the same ratio or
\* the same kind of error.
C30_RadixTenAgreesWithFromStr ==
    (/\ op = "from_str_radix"
     /\ res.radix = 10
     /\ \/ Slashes(text) = {} /\ IsInteger(text)
        \/ \E i \in Slashes(text) :
                /\ IsInteger(SubSeq(text, 1, i - 1))
                /\ IsInteger(SubSeq(text, i + 1, Len(text)))) =>
        res.out = from_str(text)

\* C26: every recursive call of cmp has denominators strictly smaller in
\* magnitude than its caller's, so that the comparison of two ratios with
\* non-zero denominators makes fewer recursive calls than either operand has
\* continued-fraction terms, and then returns.
C26_CmpTerminates ==
    /\ [][op' = "cmp_recurse" =>
            /\ Abs(x'.denom) < Abs(x.denom)
            /\ Abs(y'.denom) < Abs(y.denom)]_vars
    /\ []((op \in {"cmp_recurse", "cmp_return"}
            /\ res.self.denom # 0 /\ res.other.denom # 0) =>
            /\ res.depth < Len(Quotients(res.self.numer, res.self.denom))
            /\ res.depth < Len(Quotients(res.other.numer, res.other.denom)))

\* A comparison of two ratios with non-zero denominators that returned from
\* two calls below the first one, with the ordering of the recursive
\* definition.
C26_Witness ==
    /\ op = "cmp_return"
    /\ res.self.denom # 0
    /\ res.other.denom # 0
    /\ res.depth = 2
    /\ res.ord = cmp(res.self, res.other)

\* The float given to the approximation is NaN, an infinity, larger in
\* magnitude than T::max_value(), or negative for an unsigned T.
Rejectable ==
    \/ call.val.class \in {"nan", "inf"}
    \/ call.val.num > TMax * call.val.den
    \/ ~signed /\ call.val.neg /\ call.val.num > 0

\* C22: the approximation of NaN, of an infinity, of a float larger in
\* magnitude than T::max_value() and, for an unsigned T, of a negative float
\* returns None: it does not panic and returns no ratio.
C22_ApproxRejects ==
    (call.pc # "none" /\ Rejectable) =>
        /\ call.pc # "panic"
        /\ call.pc = "done" => res.out = None

\* A float one above T::max_value(), which F rounds T::max_value() to: it
\* passes the test against t_max_f and is stopped by the cast to T.
C22_Witness ==
    /\ call.pc = "done"
    /\ call.val.class = "finite"
    /\ call.val.num = TMax + 1
    /\ call.val.den = 1
    /\ ~call.exact
    /\ call.max_iterations > 0
    /\ res.out = None

\* C27: every product and sum the loop computes for a convergent is at most
\* T::max_value(), the loop makes at most max_iterations iterations and
\* never panics, and the function returns None exactly when the final d1 is
\* zero (and Some of a ratio otherwise).
C27_ApproxGuarded ==
    call.pc \in {"loop", "end", "done", "panic"} =>
        /\ \A v \in call.computed : v <= TMax
        /\ call.i <= call.max_iterations
        /\ call.pc # "panic"
        /\ call.pc = "done" =>
                /\ res.out = None <=> call.d1 = 0
                /\ res.out.kind \in {"None", "Some"}

\* The overflow test ended the loop after a first convergent was computed.
C27_Witness ==
    /\ call.pc = "end"
    /\ call.i >= 1
    /\ call.d1 > 0
    /\ T_from_float(call.q).some
    /\ overflows(T_from_float(call.q).val,
                 call.n0, call.d0, call.n1, call.d1)

====
